---- MODULE Spec2Model ----
(***************************************************************************)
(* Model of the /generate endpoint and of LLMClient                        *)
(* (app/api/routes.py, app/services/llm_client.py, app/schemas/prompt.py,  *)
(* app/core/config.py).                                                    *)
(*                                                                         *)
(* Python values are tagged records [t, v]: t is the Python/JSON type and  *)
(* v the payload.  A text is a sequence of one-character strings, so that  *)
(* its length, its first character and its whitespace are all visible.     *)
(* The result of a call is a record [kind, exc, msg, value]: either a      *)
(* returned value or a raised exception with its class and message.        *)
(***************************************************************************)
EXTENDS Naturals, Sequences, FiniteSets

\* ------------------------------------------------------------ bounds
\* Number of inbound /generate requests that may be in flight together.
NumRequests == 2
\* Number of calls a direct user of LLMClient makes on its client.
MaxDirectOps == 4

\* ------------------------------------------------------------ program constants
api_timeout == 60
HTTP_200_OK == 200
HTTP_502_BAD_GATEWAY == 502
HTTP_500_INTERNAL_SERVER_ERROR == 500
min_length == 1

\* ------------------------------------------------------------ Python / JSON values
None == [t |-> "null", v |-> <<>>]
JStr(s) == [t |-> "string", v |-> s]
JNum(n) == [t |-> "number", v |-> <<n>>]
JArr(items) == [t |-> "array", v |-> items]
JObj(fields) == [t |-> "object", v |-> fields]
EmptyObj == [t |-> "object", v |-> <<>>]

\* ------------------------------------------------------------ call results
NoMsg == [text |-> "", code |-> 0, cause |-> ""]
Return(val) == [kind |-> "return", exc |-> "", msg |-> NoMsg, value |-> val]
Raise(cls, m) == [kind |-> "raise", exc |-> cls, msg |-> m, value |-> None]
NoResult == [kind |-> "none", exc |-> "", msg |-> NoMsg, value |-> None]

\* The messages the code attaches to the exceptions it raises.
MsgPrecondition ==
    [text |-> "LLMClient must be used as an async context manager", code |-> 0, cause |-> ""]
MsgStatus(code) == [text |-> "LLM API error: ", code |-> code, cause |-> ""]
MsgRequest(cause) == [text |-> "Request failed: ", code |-> 0, cause |-> cause]
MsgInvalid == [text |-> "Invalid response format from LLM API", code |-> 0, cause |-> ""]
MsgInternal == [text |-> "Internal server error", code |-> 0, cause |-> ""]
\* httpx's own message when a closed AsyncClient is asked to send.
MsgClosed ==
    [text |-> "Cannot send a request, as the client has been closed.", code |-> 0, cause |-> ""]

\* ------------------------------------------------------------ subscripting
\* Python's obj[key] for a text key, on a JSON-decoded value.
GetKey(val, k) ==
    IF val.t = "object"
    THEN IF k \in DOMAIN val.v THEN Return(val.v[k]) ELSE Raise("KeyError", NoMsg)
    ELSE Raise("TypeError", NoMsg)

\* Python's obj[i] for a non-negative integer i (0-based).
GetIndex(val, i) ==
    IF val.t = "array"
    THEN IF i + 1 <= Len(val.v) THEN Return(val.v[i + 1]) ELSE Raise("IndexError", NoMsg)
    ELSE IF val.t = "string"
    THEN IF i + 1 <= Len(val.v) THEN Return(JStr(<<val.v[i + 1]>>))
         ELSE Raise("IndexError", NoMsg)
    ELSE IF val.t = "object" THEN Raise("KeyError", NoMsg)
    ELSE Raise("TypeError", NoMsg)

\* Python's obj[-1]: the last element.
GetLast(val) ==
    IF val.t \in {"array", "string"} /\ Len(val.v) > 0
    THEN GetIndex(val, Len(val.v) - 1)
    ELSE GetIndex(val, 0)

\* data["choices"][-1]["message"]["content"]: the last choice instead of the first.
ExtractLast(data) ==
    LET a == GetKey(data, "choices") IN
    IF a.kind = "raise" THEN a ELSE
    LET b == GetLast(a.value) IN
    IF b.kind = "raise" THEN b ELSE
    LET c == GetKey(b.value, "message") IN
    IF c.kind = "raise" THEN c ELSE
    GetKey(c.value, "content")

\* data["choices"][0]["message"]["content"]
Extract(data) ==
    LET a == GetKey(data, "choices") IN
    IF a.kind = "raise" THEN a ELSE
    LET b == GetIndex(a.value, 0) IN
    IF b.kind = "raise" THEN b ELSE
    LET c == GetKey(b.value, "message") IN
    IF c.kind = "raise" THEN c ELSE
    GetKey(c.value, "content")

\* ------------------------------------------------------------ upstream replies
Text(s) == JStr(s)
Response(status, isjson, body) ==
    [kind |-> "response", status |-> status, isjson |-> isjson, body |-> body, err |-> ""]
TransportFailure(cls) ==
    [kind |-> "error", status |-> 0, isjson |-> FALSE, body |-> None, err |-> cls]
NoReply == [kind |-> "none", status |-> 0, isjson |-> FALSE, body |-> None, err |-> ""]

Choice(content) == JObj([message |-> JObj([content |-> content])])
Completion(choices) == JObj([choices |-> JArr(choices)])

Hi == Text(<<"H", "i">>)
Padded == Text(<<" ", "H", "i", " ">>)
Yo == Text(<<"Y", "o">>)

\* What the upstream may answer to one POST: an HTTP response (status, whether the
\* body is JSON at all, the decoded body) or a transport failure.
Replies ==
    << Response(200, TRUE, Completion(<<Choice(Hi)>>)),
       Response(200, TRUE, Completion(<<Choice(Text(<<>>))>>)),
       Response(201, TRUE, Completion(<<Choice(Padded)>>)),
       Response(200, TRUE, Completion(<<Choice(Hi), Choice(Yo)>>)),
       Response(200, TRUE, Completion(<<>>)),
       Response(200, TRUE, EmptyObj),
       Response(200, TRUE, Completion(<<JObj([message |-> EmptyObj])>>)),
       Response(200, FALSE, None),
       Response(200, TRUE, JObj([choices |-> Text(<<"a", "b">>)])),
       Response(200, TRUE, Completion(<<Choice(JNum(42))>>)),
       Response(429, TRUE, Completion(<<Choice(Hi)>>)),
       Response(500, FALSE, None),
       Response(301, TRUE, Completion(<<Choice(Hi)>>)),
       TransportFailure("ConnectError") >>

\* Further answers, tried on a client that is called directly.
MoreReplies ==
    << Response(204, FALSE, None),
       Response(200, TRUE, JArr(<<>>)),
       Response(200, TRUE, Completion(<<JObj([message |-> Hi])>>)),
       Response(503, TRUE, EmptyObj),
       Response(200, TRUE, None),
       Response(200, TRUE, Completion(<<EmptyObj>>)),
       Response(200, TRUE, JObj([choices |-> Text(<<>>)])),
       Response(200, TRUE, JObj([choices |-> EmptyObj])),
       Response(200, TRUE, Completion(<<Choice(None)>>)),
       Response(404, FALSE, None),
       TransportFailure("RemoteProtocolError"),
       TransportFailure("ReadTimeout") >>

AllReplies == Replies \o MoreReplies

\* One answer of each kind, for the runs that follow a request to its end.
TimedReplies ==
    << Response(200, TRUE, Completion(<<Choice(Hi)>>)),
       Response(200, TRUE, Completion(<<>>)),
       Response(200, FALSE, None),
       Response(429, TRUE, Completion(<<Choice(Hi)>>)),
       TransportFailure("ConnectError") >>

\* The prompts a caller may send; the empty one fails PromptRequest's validation.
Prompts == << <<>>, <<"H">>, <<"H", "e", "y">> >>

\* ------------------------------------------------------------ httpx
\* A status test that lets client errors through (only 5xx is an error).
is_success_lax(status) == status < 500

\* httpx.Response.is_success, which raise_for_status() tests.
is_success(status) == 200 <= status /\ status <= 299

\* response.raise_for_status()
raise_for_status(rep) ==
    IF is_success(rep.status) THEN Return(None)
    ELSE Raise("HTTPStatusError", MsgStatus(rep.status))

\* response.json()
response_json(rep) ==
    IF rep.isjson THEN Return(rep.body) ELSE Raise("JSONDecodeError", NoMsg)

\* The subclasses of httpx.RequestError that a send can raise.
IsRequestError(cls) ==
    cls \in {"ConnectError", "ConnectTimeout", "ReadTimeout", "WriteTimeout",
             "PoolTimeout", "ReadError", "RemoteProtocolError"}

\* httpx.Timeout(None): no timeout at all.
NoTimeout(seconds) == 0

\* httpx.Timeout(self.timeout): the same limit for connect, read, write and pool.
httpx_Timeout(seconds) == seconds

\* httpx.AsyncClient(base_url=..., headers=..., timeout=...): a new, unopened client.
AsyncClient(timeout) ==
    [state |-> "UNOPENED", timeout |-> timeout, requests |-> <<>>, releases |-> 0]

\* await AsyncClient.aclose(): closes the transport unless already closed.
AsyncClient_aclose(c) ==
    IF c.state # "CLOSED"
    THEN [c EXCEPT !.state = "CLOSED", !.releases = @ + 1]
    ELSE c

\* ------------------------------------------------------------ LLMClient
\* LLMClient.__init__
LLMClient_init ==
    [model_name |-> "llm_model", timeout |-> api_timeout, hclient |-> 0]

\* A guard that never fires.
NeverUnopened(self) == FALSE

\* `not self._client`
NotOpened(self) == self.hclient = 0

\* The payload and path of the one POST of generate.
Payload(self, prompt) ==
    [path |-> "/v1/chat/completions", model |-> self.model_name,
     role |-> "user", content |-> prompt]

\* Lines 65-68, once the POST has been answered by `rep`.
generate_try(rep) ==
    IF rep.kind = "error" THEN Raise(rep.err, MsgRequest(rep.err)) ELSE
    LET st == raise_for_status(rep) IN
    IF st.kind = "raise" THEN st ELSE
    LET data == response_json(rep) IN
    IF data.kind = "raise" THEN data ELSE
    Extract(data.value)

\* The except clauses of generate (lines 69-74).
generate_except(raw) ==
    IF raw.kind # "raise" THEN raw
    ELSE IF raw.exc = "HTTPStatusError" THEN Raise("RuntimeError", MsgStatus(raw.msg.code))
    ELSE IF IsRequestError(raw.exc) THEN Raise("RuntimeError", MsgRequest(raw.msg.cause))
    ELSE IF raw.exc \in {"KeyError", "IndexError"} THEN Raise("RuntimeError", MsgInvalid)
    ELSE raw

\* A failed attempt is sent once more.
RetryOnce(raw, attempts) == raw.kind = "raise" /\ attempts < 2

\* generate has no loop: every except clause raises at once.
ShouldRetry(raw, attempts) == FALSE

\* ------------------------------------------------------------ state
VARIABLES
    clients,    \* the LLMClient instances ever constructed, by identity (1, 2, ...)
    conns,      \* the httpx.AsyncClient instances ever constructed, by identity
    pc,         \* per inbound request: where its handler coroutine stands
    prompt,     \* per inbound request: request.prompt
    client,     \* per inbound request: the handler's local `client`
    conn,       \* per inbound request: the AsyncClient its POST was issued on
    reply,      \* per inbound request: what the upstream answered
    result,     \* per inbound request: how client.generate ended
    http,       \* per inbound request: the HTTP response of the endpoint
    d_client,   \* a direct user's LLMClient (0 when there is none)
    d_hist,     \* the calls the direct user has made, in order
    d_res       \* how that call ended

vars == <<clients, conns, pc, prompt, client, conn, reply, result, http,
          d_client, d_hist, d_res>>
hvars == <<pc, prompt, client, conn, reply, result, http>>
dvars == <<d_client, d_hist, d_res>>

Requests == 1..NumRequests

NoHttp == [status |-> 0, detail |-> NoMsg, response |-> None]

\* ------------------------------------------------------------ operations on the heap
\* A factory that hands out one module-level instance.
get_shared_client(cs) == 1

\* get_llm_client(): the identity of the instance it returns, always a new one.
get_llm_client(cs) == Len(cs) + 1

\* The instances after get_llm_client() returned instance `id`.
WithClient(cs, id) == IF id > Len(cs) THEN Append(cs, LLMClient_init) ELSE cs

\* LLMClient.__aenter__: a new AsyncClient, stored in self._client.
aenter_conns(cs, cn, id) == Append(cn, AsyncClient(httpx_Timeout(cs[id].timeout)))
aenter_clients(cs, cn, id) == [cs EXCEPT ![id].hclient = Len(cn) + 1]

\* await AsyncClient.post(path, json=payload) up to the point where the request is
\* on the wire: [res, conns].  On None the attribute lookup fails; a closed client
\* refuses to send.
AsyncClient_post(cn, h, req) ==
    IF h = 0 THEN [res |-> Raise("AttributeError", NoMsg), conns |-> cn]
    ELSE IF cn[h].state = "CLOSED"
    THEN [res |-> Raise("RuntimeError", MsgClosed), conns |-> cn]
    ELSE [res |-> NoResult,
          conns |-> [cn EXCEPT ![h].state = "OPENED", ![h].requests = Append(@, req)]]

\* generate up to its await (lines 56-65): [res, conns]; res.kind = "none" means the
\* POST is in flight.
generate_begin(cs, cn, id, p) ==
    IF NotOpened(cs[id])
    THEN [res |-> Raise("RuntimeError", MsgPrecondition), conns |-> cn]
    ELSE AsyncClient_post(cn, cs[id].hclient, Payload(cs[id], p))

\* __aexit__ that forgets to close.
aexit_forgets(cs, cn, id) == [res |-> Return(None), conns |-> cn]

\* __aexit__ with the guard left out.
aexit_unguarded(cs, cn, id) ==
    IF cs[id].hclient = 0
    THEN [res |-> Raise("AttributeError", NoMsg), conns |-> cn]
    ELSE [res |-> Return(None),
          conns |-> [cn EXCEPT ![cs[id].hclient] = AsyncClient_aclose(@)]]

\* LLMClient.__aexit__ (lines 39-41): [res, conns].
aexit(cs, cn, id) ==
    IF cs[id].hclient # 0
    THEN [res |-> Return(None),
          conns |-> [cn EXCEPT ![cs[id].hclient] = AsyncClient_aclose(@)]]
    ELSE [res |-> Return(None), conns |-> cn]

\* ------------------------------------------------------------ the handler
\* PromptResponse(response=value): pydantic accepts a str and nothing else.
PromptResponse(res) ==
    IF res.kind # "return" THEN res
    ELSE IF res.value.t = "string" THEN res
    ELSE Raise("ValidationError", NoMsg)

\* The two except clauses of generate_response and its normal return.
handler_outcome(res) ==
    IF res.kind = "return"
    THEN [status |-> HTTP_200_OK, detail |-> NoMsg, response |-> res.value]
    ELSE IF res.exc = "RuntimeError"
    THEN [status |-> HTTP_502_BAD_GATEWAY, detail |-> res.msg, response |-> None]
    ELSE [status |-> HTTP_500_INTERNAL_SERVER_ERROR, detail |-> MsgInternal,
          response |-> None]

Init ==
    /\ clients = <<>>
    /\ conns = <<>>
    /\ pc = [r \in Requests |-> "idle"]
    /\ prompt = [r \in Requests |-> <<>>]
    /\ client = [r \in Requests |-> 0]
    /\ conn = [r \in Requests |-> 0]
    /\ reply = [r \in Requests |-> NoReply]
    /\ result = [r \in Requests |-> NoResult]
    /\ http = [r \in Requests |-> NoHttp]
    /\ d_client = 0
    /\ d_hist = <<>>
    /\ d_res = NoResult

\* A body whose prompt is shorter than min_length never reaches the handler.
Reject(r, p) ==
    /\ pc[r] = "idle"
    /\ Len(p) < min_length
    /\ pc' = [pc EXCEPT ![r] = "rejected"]
    /\ prompt' = [prompt EXCEPT ![r] = p]
    /\ http' = [http EXCEPT ![r] = [status |-> 422, detail |-> NoMsg, response |-> None]]
    /\ UNCHANGED <<clients, conns, client, conn, reply, result>>
    /\ UNCHANGED dvars

\* generate_response from its start to the await of the POST: get_llm_client(),
\* __aenter__, the guard and the payload of generate, the POST.
Start(r, p) ==
    /\ pc[r] = "idle"
    /\ Len(p) >= min_length
    /\ LET id == get_llm_client(clients)
           cs1 == WithClient(clients, id)
           cn1 == aenter_conns(cs1, conns, id)
           cs2 == aenter_clients(cs1, conns, id)
           g == generate_begin(cs2, cn1, id, p)
       IN /\ clients' = cs2
          /\ conns' = g.conns
          /\ client' = [client EXCEPT ![r] = id]
          /\ conn' = [conn EXCEPT ![r] = cs2[id].hclient]
          /\ prompt' = [prompt EXCEPT ![r] = p]
          /\ IF g.res.kind = "none"
             THEN /\ pc' = [pc EXCEPT ![r] = "awaiting"]
                  /\ UNCHANGED <<reply, result>>
             ELSE /\ pc' = [pc EXCEPT ![r] = "replied"]
                  /\ reply' = [reply EXCEPT ![r] = NoReply]
                  /\ result' = [result EXCEPT ![r] = g.res]
    /\ UNCHANGED http
    /\ UNCHANGED dvars

\* The upstream answers the POST of request r, or the transport fails.
UpstreamReplies(r, rep) ==
    /\ pc[r] = "awaiting"
    /\ pc' = [pc EXCEPT ![r] = "replied"]
    /\ reply' = [reply EXCEPT ![r] = rep]
    /\ UNCHANGED <<clients, conns, prompt, client, conn, result, http>>
    /\ UNCHANGED dvars

\* No answer came within the timeout the AsyncClient was built with.
TimerExpires(r) ==
    /\ pc[r] = "awaiting"
    /\ conns[conn[r]].timeout > 0
    /\ pc' = [pc EXCEPT ![r] = "replied"]
    /\ reply' = [reply EXCEPT ![r] = TransportFailure("ReadTimeout")]
    /\ UNCHANGED <<clients, conns, prompt, client, conn, result, http>>
    /\ UNCHANGED dvars

\* generate resumes with the answer (lines 66-74), the handler builds its
\* PromptResponse, leaving the `async with` runs __aexit__, and the handler returns
\* its response or maps the exception.
Resume(r) ==
    /\ pc[r] = "replied"
    /\ LET raw == IF result[r].kind = "none" THEN generate_try(reply[r]) ELSE result[r]
           res == IF result[r].kind = "none" THEN generate_except(raw) ELSE raw
       IN IF result[r].kind = "none"
             /\ ShouldRetry(raw, Len(conns[conn[r]].requests))
          THEN LET g == AsyncClient_post(conns, conn[r], Payload(clients[client[r]], prompt[r]))
               IN /\ conns' = g.conns
                  /\ pc' = [pc EXCEPT ![r] = "awaiting"]
                  /\ reply' = [reply EXCEPT ![r] = NoReply]
                  /\ UNCHANGED <<result, http>>
          ELSE /\ result' = [result EXCEPT ![r] = res]
               /\ conns' = aexit(clients, conns, client[r]).conns
               /\ http' = [http EXCEPT ![r] = handler_outcome(PromptResponse(res))]
               /\ pc' = [pc EXCEPT ![r] = "done"]
               /\ UNCHANGED reply
    /\ UNCHANGED <<clients, prompt, client, conn>>
    /\ UNCHANGED dvars

Next ==
    \/ \E r \in Requests : \E i \in 1..Len(Prompts) : Reject(r, Prompts[i])
    \/ \E r \in Requests : \E i \in 1..Len(Prompts) : Start(r, Prompts[i])
    \/ \E r \in Requests : \E i \in 1..Len(Replies) : UpstreamReplies(r, Replies[i])
    \/ \E r \in Requests : TimerExpires(r)
    \/ \E r \in Requests : Resume(r)

Spec == Init /\ [][Next]_vars

\* The same handler with one answer of each kind.
NextTimed ==
    \/ \E r \in Requests : Reject(r, Prompts[1])
    \/ \E r \in Requests : Start(r, Prompts[2])
    \/ \E r \in Requests : \E i \in 1..Len(TimedReplies) : UpstreamReplies(r, TimedReplies[i])
    \/ \E r \in Requests : TimerExpires(r)
    \/ \E r \in Requests : Resume(r)

\* The timer of an AsyncClient built with a timeout fires if nothing else ends the
\* wait, and the event loop resumes a coroutine whose await has completed.  Nothing
\* is assumed of the upstream.
FairSpec ==
    /\ Init
    /\ [][NextTimed]_vars
    /\ \A r \in Requests : WF_vars(TimerExpires(r)) /\ WF_vars(Resume(r))

\* ------------------------------------------------------------ a direct user of LLMClient
\* The state after `LLMClient()`: one instance, never opened.
InitClient ==
    /\ clients = <<LLMClient_init>>
    /\ conns = <<>>
    /\ pc = [r \in Requests |-> "idle"]
    /\ prompt = [r \in Requests |-> <<>>]
    /\ client = [r \in Requests |-> 0]
    /\ conn = [r \in Requests |-> 0]
    /\ reply = [r \in Requests |-> NoReply]
    /\ result = [r \in Requests |-> NoResult]
    /\ http = [r \in Requests |-> NoHttp]
    /\ d_client = 1
    /\ d_hist = <<>>
    /\ d_res = NoResult

\* open(): await client.__aenter__()
DirectOpen ==
    /\ Len(d_hist) < MaxDirectOps
    /\ conns' = aenter_conns(clients, conns, d_client)
    /\ clients' = aenter_clients(clients, conns, d_client)
    /\ d_hist' = Append(d_hist, "open")
    /\ d_res' = Return(None)
    /\ UNCHANGED d_client
    /\ UNCHANGED hvars

\* await client.generate(p), with the upstream answering `rep` if it is asked.
DirectGenerate(p, rep) ==
    /\ Len(d_hist) < MaxDirectOps
    /\ LET g == generate_begin(clients, conns, d_client, p)
       IN /\ conns' = g.conns
          /\ d_res' = IF g.res.kind = "none" THEN generate_except(generate_try(rep))
                      ELSE g.res
    /\ d_hist' = Append(d_hist, "generate")
    /\ UNCHANGED <<clients, d_client>>
    /\ UNCHANGED hvars

\* close(): await client.__aexit__(None, None, None)
DirectClose ==
    /\ Len(d_hist) < MaxDirectOps
    /\ LET x == aexit(clients, conns, d_client)
       IN /\ conns' = x.conns
          /\ d_res' = x.res
    /\ d_hist' = Append(d_hist, "close")
    /\ UNCHANGED <<clients, d_client>>
    /\ UNCHANGED hvars

NextClient ==
    \/ DirectOpen
    \/ \E i \in 2..Len(Prompts) : \E j \in 1..Len(AllReplies) :
           DirectGenerate(Prompts[i], AllReplies[j])
    \/ DirectClose

SpecClient == InitClient /\ [][NextClient]_vars

\* ------------------------------------------------------------ vocabulary of the properties
\* The last call of the direct user.
d_last == IF d_hist = <<>> THEN "none" ELSE d_hist[Len(d_hist)]

\* The upstream answered with a 2xx status.
TwoXX(rep) == rep.kind = "response" /\ rep.status >= 200 /\ rep.status <= 299

\* The body is a JSON object whose `choices` is a non-empty array whose first element
\* is an object whose `message` is an object whose `content` is a text.
WellFormed(rep) ==
    /\ rep.isjson
    /\ rep.body.t = "object"
    /\ "choices" \in DOMAIN rep.body.v
    /\ rep.body.v.choices.t = "array"
    /\ Len(rep.body.v.choices.v) >= 1
    /\ rep.body.v.choices.v[1].t = "object"
    /\ "message" \in DOMAIN rep.body.v.choices.v[1].v
    /\ rep.body.v.choices.v[1].v.message.t = "object"
    /\ "content" \in DOMAIN rep.body.v.choices.v[1].v.message.v
    /\ rep.body.v.choices.v[1].v.message.v.content.t = "string"

\* choices[0].message.content of a well-formed body, as a sequence of characters.
FirstContent(rep) == rep.body.v.choices.v[1].v.message.v.content.v

\* The handler of request r has issued its POST.
Started(r) == pc[r] \in {"awaiting", "replied", "done"}

\* ------------------------------------------------------------ properties
\* C1: the connection opened for a /generate request is released exactly once, whatever
\* the outcome of generate: it is still open while the call is in flight, it has been
\* released once (and is closed) when the handler has answered, it is never released
\* twice, and every connection ever opened belongs to a request.
C1_ReleasedExactlyOnce ==
    /\ \A r \in Requests :
          /\ pc[r] \in {"awaiting", "replied"} =>
                conn[r] # 0 /\ conns[conn[r]].releases = 0 /\ conns[conn[r]].state # "CLOSED"
          /\ pc[r] = "done" =>
                conn[r] # 0 /\ conns[conn[r]].releases = 1 /\ conns[conn[r]].state = "CLOSED"
          /\ http[r].status # 0 => pc[r] \in {"done", "rejected"}
    /\ \A c \in DOMAIN conns :
          /\ conns[c].releases <= 1
          /\ \E r \in Requests : conn[r] = c

\* Two requests have been answered, one with a result and one after a failure, and
\* each one's connection has been released once.
C1_Witness ==
    \E r, s \in Requests :
        /\ pc[r] = "done" /\ result[r].kind = "return" /\ http[r].status = 200
        /\ pc[s] = "done" /\ result[s].kind = "raise" /\ http[s].status = 500
        /\ conns[conn[r]].releases = 1
        /\ conns[conn[s]].releases = 1

\* C2 (as claimed): every 2xx answer whose body is not well-formed makes generate fail
\* with the malformed-response RuntimeError and the handler answer 502.
C2_MalformedIs502 ==
    \A r \in Requests :
        (pc[r] = "done" /\ TwoXX(reply[r]) /\ ~WellFormed(reply[r])) =>
            /\ result[r].kind = "raise"
            /\ result[r].exc = "RuntimeError"
            /\ result[r].msg = MsgInvalid
            /\ http[r].status = 502

\* C5: a non-2xx status makes generate fail with the RuntimeError that carries that
\* status code, whatever the body is (it is neither parsed nor returned), and the
\* handler answers 502 with that message.
C5_StatusError ==
    \A r \in Requests :
        (pc[r] = "done" /\ reply[r].kind = "response" /\ ~TwoXX(reply[r])) =>
            /\ result[r].kind = "raise"
            /\ result[r].exc = "RuntimeError"
            /\ result[r].msg.text = "LLM API error: "
            /\ result[r].msg.code = reply[r].status
            /\ result[r].value.t = "null"
            /\ http[r].status = 502
            /\ http[r].detail = result[r].msg
            /\ http[r].response.t = "null"

\* A 429 whose body is a well-formed completion has been answered with 502.
C5_Witness ==
    \E r \in Requests :
        /\ pc[r] = "done"
        /\ reply[r].status = 429
        /\ WellFormed(reply[r])
        /\ http[r].status = 502
        /\ http[r].detail.code = 429

\* C7: for a non-empty prompt and a 2xx answer with choices[0].message.content = R,
\* generate returns exactly R (first choice only, nothing trimmed, R may be empty) and
\* the handler answers 200 with response = R.
C7_Verbatim ==
    \A r \in Requests :
        (pc[r] = "done" /\ TwoXX(reply[r]) /\ WellFormed(reply[r])) =>
            /\ Len(prompt[r]) >= 1
            /\ result[r].kind = "return"
            /\ result[r].value.t = "string"
            /\ result[r].value.v = FirstContent(reply[r])
            /\ http[r].status = 200
            /\ http[r].response.t = "string"
            /\ http[r].response.v = FirstContent(reply[r])

\* One request got the empty text back and another a body with two choices, and
\* both were answered 200.
C7_Witness ==
    \E r, s \in Requests :
        /\ pc[r] = "done" /\ TwoXX(reply[r]) /\ WellFormed(reply[r])
        /\ FirstContent(reply[r]) = <<>>
        /\ http[r].status = 200 /\ http[r].response.v = <<>>
        /\ pc[s] = "done" /\ TwoXX(reply[s]) /\ WellFormed(reply[s])
        /\ Len(reply[s].body.v.choices.v) = 2
        /\ http[s].status = 200

\* C8: a generate call issues exactly one POST, to the chat-completion path and with
\* its own prompt, once its client is open, and none before; a failure does not
\* lead to a second attempt.
C8_SinglePost ==
    /\ \A r \in Requests :
          /\ pc[r] \in {"idle", "rejected"} => conn[r] = 0
          /\ Started(r) =>
                /\ Len(conns[conn[r]].requests) = 1
                /\ conns[conn[r]].requests[1].path = "/v1/chat/completions"
                /\ conns[conn[r]].requests[1].content = prompt[r]
    /\ \A c \in DOMAIN conns : Len(conns[c].requests) <= 1

\* A request failed on an HTTP status, another on the transport, and each sent one POST.
C8_Witness ==
    \E r, s \in Requests :
        /\ pc[r] = "done" /\ reply[r].kind = "response" /\ reply[r].status = 500
        /\ pc[s] = "done" /\ reply[s].kind = "error"
        /\ Len(conns[conn[r]].requests) = 1
        /\ Len(conns[conn[s]].requests) = 1

C4_UnopenedFailsFast ==
    (d_last = "generate" /\ clients[d_client].hclient = 0) =>
        /\ d_res.kind = "raise"
        /\ d_res.exc = "RuntimeError"
        /\ d_res.msg = MsgPrecondition
        /\ \A c \in DOMAIN conns : conns[c].requests = <<>>

\* generate was called twice on a client that was never opened, and failed.
C4_Witness ==
    /\ d_hist = <<"generate", "close", "generate">>
    /\ clients[d_client].hclient = 0
    /\ d_res.kind = "raise"

\* C6: a POST that is in flight does not wait forever, and once the upstream stayed
\* silent past the timeout or the transport failed, generate has failed with the
\* transport variant of its RuntimeError, no result is returned and the handler
\* answers 502.
C6_TimeoutFails ==
    /\ \A r \in Requests : (pc[r] = "awaiting") ~> (pc[r] = "done")
    /\ [](\A r \in Requests :
            (pc[r] = "done" /\ reply[r].kind = "error") =>
                /\ result[r].kind = "raise"
                /\ result[r].exc = "RuntimeError"
                /\ result[r].msg.text = "Request failed: "
                /\ result[r].msg.cause = reply[r].err
                /\ result[r].value.t = "null"
                /\ http[r].status = 502
                /\ http[r].response.t = "null")

\* A request whose upstream stayed silent has been answered 502 after the timeout.
C6_Witness ==
    \E r \in Requests :
        /\ pc[r] = "done"
        /\ reply[r].kind = "error" /\ reply[r].err = "ReadTimeout"
        /\ result[r].msg.cause = "ReadTimeout"
        /\ http[r].status = 502

\* C9: close() never raises, with or without open(); on a client that was never
\* opened it changes nothing; on an opened client the first close() releases the
\* connection and a second one changes nothing and releases nothing.
C9_CloseIdempotent ==
    /\ [](d_last = "close" => d_res.kind = "return")
    /\ [](\A c \in DOMAIN conns : conns[c].releases <= 1)
    /\ [][(d_hist' # d_hist /\ d_last' = "close") =>
            /\ clients' = clients
            /\ LET h == clients[d_client].hclient
               IN IF h = 0 THEN conns' = conns
                  ELSE IF conns[h].state = "CLOSED" THEN conns' = conns
                  ELSE /\ conns'[h].state = "CLOSED"
                       /\ conns'[h].releases = 1]_vars

\* An opened client has been closed twice, and its connection released once.
C9_Witness ==
    /\ d_hist = <<"open", "close", "close">>
    /\ d_res.kind = "return"
    /\ conns[clients[d_client].hclient].releases = 1

\* C10: concurrent requests share nothing that changes: each has its own LLMClient and
\* its own connection, what it sends and what it answers is decided by its own prompt
\* and its own upstream answer, and a step of one request (its failure and the release
\* of its connection included) leaves every other request's client, connection and
\* outcome as they were.
C10_Independent ==
    /\ [](\A r, s \in Requests :
            (r # s /\ Started(r) /\ Started(s)) =>
                client[r] # client[s] /\ conn[r] # conn[s])
    /\ [](\A r \in Requests :
            Started(r) =>
                /\ clients[client[r]].hclient = conn[r]
                /\ conns[conn[r]].requests[1].content = prompt[r]
                /\ clients[client[r]].timeout = api_timeout)
    /\ [](\A r \in Requests :
            pc[r] = "done" =>
                /\ (http[r].status = 200) <=> (TwoXX(reply[r]) /\ WellFormed(reply[r]))
                /\ (http[r].status = 200) => http[r].response.v = FirstContent(reply[r])
                /\ (reply[r].kind = "error" \/ ~TwoXX(reply[r])) => http[r].status = 502)
    /\ [][\A r \in Requests :
            pc'[r] = pc[r] =>
                /\ prompt'[r] = prompt[r] /\ client'[r] = client[r] /\ conn'[r] = conn[r]
                /\ result'[r].kind = result[r].kind /\ http'[r].status = http[r].status
                /\ Started(r) =>
                      /\ clients'[client[r]] = clients[client[r]]
                      /\ conns'[conn[r]] = conns[conn[r]]]_vars

\* While one request is still waiting on its open connection, another one has failed
\* and released its own.
C10_Witness ==
    \E r, s \in Requests :
        /\ r # s
        /\ pc[r] = "done" /\ result[r].kind = "raise"
        /\ conns[conn[r]].state = "CLOSED"
        /\ pc[s] = "awaiting"
        /\ conns[conn[s]].state = "OPENED"
        /\ prompt[r] # prompt[s]

====
